---- MODULE Spec2Model ----
(***************************************************************************)
(* A model of learn.py: the interactive Broadlink IR learning session.     *)
(*                                                                         *)
(* Decimal temperatures are modelled as integers counting tenths of a      *)
(* degree (Decimal arithmetic is exact, so is this).  The JSON document is *)
(* a record; its "commands" tree is a function from key paths to values,   *)
(* a dict node carrying the value Dict and a leaf carrying its command.    *)
(* One action models the code between two blocking calls (input() or the   *)
(* device's learning call).                                                *)
(***************************************************************************)
EXTENDS Integers, Sequences, FiniteSets, TLC

VARIABLES
    file,                 \* smartir.json on disk
    data,                 \* main: data (session.data); data.commands is session.commands
    pc,                   \* the blocking call the process waits in
    auto_resume,          \* ACLearningSession.auto_resume
    skip_swing_learning,  \* ACLearningSession.skip_swing_learning
    precision,            \* ACLearningSession.precision, in tenths
    min_default,          \* ACLearningSession.min_default, in tenths
    max_default,          \* ACLearningSession.max_default, in tenths
    config,               \* run: config (LearningConfig)
    minimum,              \* _prepare_temperature_range: minimum
    temperatures,         \* _learn_all_commands: temperatures (the working list)
    k,                    \* number of triples _learn_all_commands has finished
    target,               \* _learn_for_mode: the key path of target_container
    response,             \* _capture_commands: response
    iT,                   \* _capture_commands: position in temperature_values
    exit,                 \* how main ended: "none", "normal", or the exception
    saves,                \* number of times main wrote the file in this process
    entered,              \* calls of device.enter_learning() for the current
                          \* triple, or for the off command
    elapsed,              \* _learn_command: time.time() - start, in poll intervals
    polls,                \* _learn_command: calls of device.check_data()
    result,               \* _learn_command: <<the value it returned>>, else <<>>
    runs,                 \* number of processes started so far
    walked,               \* <<the configuration and range the last process walked
                          \* to the end>> while this process repeats it, else <<>>
    ended_at              \* <<the temperature at which the last triple of this
                          \* walk that captured per temperature ended>>, else <<>>

vars == <<file, data, pc, auto_resume, skip_swing_learning, precision,
          min_default, max_default, config, minimum, temperatures, k, target,
          response, iT, exit, saves, entered, elapsed, polls, result, runs,
          walked, ended_at>>

----------------------------------------------------------------------------
(* Values *)

\* Python's None; no input of the model produces this string.
None == "<None>"

\* The value of a dict node of the commands tree.
Dict == "<dict>"

\* reversed() leaving the order as it is
KeepOrder(s) == s

Reverse(s) == [j \in 1..Len(s) |-> s[Len(s) + 1 - j]]

Last(s) == s[Len(s)]

----------------------------------------------------------------------------
(* The commands tree: Python dict operations on key paths *)

IsPrefix(p, q) == Len(p) <= Len(q) /\ SubSeq(q, 1, Len(p)) = p

Children(c, p) == {q \in DOMAIN c : Len(q) = Len(p) + 1 /\ IsPrefix(p, q)}

Descendants(c, p) == {q \in DOMAIN c : Len(q) > Len(p) /\ IsPrefix(p, q)}

Keys(c, p) == {Last(q) : q \in Children(c, p)}

Restrict(c, S) == [q \in S |-> c[q]]

\* bool(x) taken to be true of every value
TruthyAlways(c, p) == TRUE

\* bool(x) of the value at path p: a dict is true when it has a key, a
\* string when it is not empty.  The root <<>> is the commands dict itself.
Truthy(c, p) ==
    IF p = <<>> \/ c[p] = Dict THEN Children(c, p) # {} ELSE c[p] # ""

\* dict.setdefault(key, {}) on the dict holding path p
SetDefault(c, p) == IF p \in DOMAIN c THEN c ELSE c @@ (p :> Dict)

\* dict.clear() leaving the dict as it is
KeepContent(c, p) == c

\* dict.clear() of the dict at path p
Clear(c, p) == Restrict(c, DOMAIN c \ Descendants(c, p))

\* container[key] = value, for the path p of the key
SetItem(c, p, v) == (p :> v) @@ Clear(c, p)

----------------------------------------------------------------------------
(* Pure helpers of learn.py *)

\* prompt_yes_no, one pass of its loop on an already stripped and lowered
\* response: "True", "False", or "again" when the loop asks once more.
prompt_yes_no(resp, default) ==
    IF resp = "" THEN (IF default THEN "True" ELSE "False")
    ELSE IF resp \in {"y", "yes"} THEN "True"
    ELSE IF resp \in {"n", "no"} THEN "False"
    ELSE "again"

\* prompt_list on the response split at its commas, every item stripped
\* (an item of blanks is ""); raw = <<>> is the empty response.
prompt_list(raw, stored_values) ==
    IF raw = <<>> THEN stored_values
    ELSE SelectSeq(raw, LAMBDA item : item # "")

\* format(value, "f") of a Decimal with one fractional digit (tenths)
FormatF(value) == ToString(value \div 10) \o "." \o ToString(value % 10)

\* temperature_to_string: text.rstrip("0").rstrip(".") of the formatted text
temperature_to_string(value) ==
    IF value % 10 = 0 THEN ToString(value \div 10) ELSE FormatF(value)

\* decimal_to_number: an int when the Decimal is integral, else a float
\* (the float is kept as its tenths).
decimal_to_number(value) ==
    IF value % 10 = 0 THEN [kind |-> "int", v |-> value \div 10]
    ELSE [kind |-> "float", v |-> value]

\* Decimal(str(number)) of a JSON number, in tenths
DecimalOfNumber(n) == IF n.kind = "int" THEN n.v * 10 ELSE n.v

\* Decimal(response) for the responses of the model: a finite value in
\* tenths, an infinity, or the InvalidOperation the constructor raises.
DecimalOf(resp) ==
    CASE resp = "16"   -> [kind |-> "finite", v |-> 160]
      [] resp = "16.3" -> [kind |-> "finite", v |-> 163]
      [] resp = "16.5" -> [kind |-> "finite", v |-> 165]
      [] resp = "inf"  -> [kind |-> "infinite", v |-> 0]
      [] OTHER         -> [kind |-> "invalid", v |-> 0]

\* prompt_temperature, one pass of its loop: [kind |-> "return", v |-> value],
\* "again" (a message and the next pass) or "raise" (value % precision of an
\* infinity raises InvalidOperation outside the try block).  minimum is <<>>
\* for None and <<m>> otherwise.
prompt_temperature(resp, default, prec, min) ==
    LET parsed == IF resp = "" THEN [kind |-> "finite", v |-> default]
                  ELSE DecimalOf(resp)
        value  == parsed.v
    IN  IF parsed.kind = "invalid" THEN [kind |-> "again", v |-> 0]
        ELSE IF prec <= 0 THEN [kind |-> "again", v |-> 0]
        ELSE IF parsed.kind = "infinite" THEN [kind |-> "raise", v |-> 0]
        ELSE IF value % prec # 0 THEN [kind |-> "again", v |-> 0]
        ELSE IF min # <<>> /\ value < min[1] THEN [kind |-> "again", v |-> 0]
        ELSE IF min # <<>> /\ (value - min[1]) % prec # 0
             THEN [kind |-> "again", v |-> 0]
        ELSE [kind |-> "return", v |-> value]

RECURSIVE RangeLoop(_, _, _, _)
\* the while loop of build_temperature_range
RangeLoop(current, maximum, prec, values) ==
    IF current <= maximum
    THEN RangeLoop(current + prec, maximum, prec,
                   Append(values, current))
    ELSE values

\* The loop with "current < maximum" for its condition
BuildRangeExclusive(min, maximum, prec) ==
    RangeLoop(min, maximum - 1, prec, <<>>)

build_temperature_range(min, maximum, prec) ==
    RangeLoop(min, maximum, prec, <<>>)

\* The base64 alphabet
B64 == <<"A","B","C","D","E","F","G","H","I","J","K","L","M","N","O","P",
         "Q","R","S","T","U","V","W","X","Y","Z","a","b","c","d","e","f",
         "g","h","i","j","k","l","m","n","o","p","q","r","s","t","u","v",
         "w","x","y","z","0","1","2","3","4","5","6","7","8","9","+","/">>

RECURSIVE b64encode(_)
\* base64.b64encode(payload).decode("ascii") of a sequence of bytes
b64encode(payload) ==
    IF Len(payload) = 0 THEN ""
    ELSE IF Len(payload) = 1 THEN
        B64[(payload[1] \div 4) + 1] \o B64[((payload[1] % 4) * 16) + 1] \o "=="
    ELSE IF Len(payload) = 2 THEN
        B64[(payload[1] \div 4) + 1]
        \o B64[((payload[1] % 4) * 16) + (payload[2] \div 16) + 1]
        \o B64[((payload[2] % 16) * 4) + 1] \o "="
    ELSE
        B64[(payload[1] \div 4) + 1]
        \o B64[((payload[1] % 4) * 16) + (payload[2] \div 16) + 1]
        \o B64[((payload[2] % 16) * 4) + (payload[3] \div 64) + 1]
        \o B64[(payload[3] % 64) + 1]
        \o b64encode(SubSeq(payload, 4, Len(payload)))

----------------------------------------------------------------------------
(* Inputs of the environment *)

\* Responses to a yes/no prompt, stripped and lowered
YesNoInputs == {"", "y", "yes", "n", "no", "maybe"}

\* Responses to a list prompt, split at the commas and stripped
OperationInputs == {<<>>, <<"cool">>, <<"">>}
FanInputs == {<<>>, <<"low">>}
SwingInputs == {<<>>, <<"up">>, <<"">>}

\* Responses to a temperature prompt, stripped
TemperatureInputs == {"", "16", "16.3", "16.5", "abc", "inf"}

\* Responses to the prepare prompt, stripped and lowered
PrepareInputs == {"", "y", "n", "no", "s"}

\* Payloads device.check_data() returns
Payloads == {<<66>>}

\* What _learn_command returns: the encoded payload of the first poll that
\* yields data, or "" when the deadline passes without data.
LearnResults == {b64encode(payload) : payload \in Payloads} \cup {""}

\* smartir.json before the first session
InitialDocuments ==
    {[precision      |-> [kind |-> "float", v |-> 5],
      minTemperature |-> [kind |-> "int", v |-> 16],
      maxTemperature |-> [kind |-> "float", v |-> 165],
      operationModes |-> <<"cool", "heat">>,
      fanModes       |-> <<"low", "high">>,
      swingModes     |-> swing,
      commands       |-> <<>>] : swing \in {<<>>, <<"up">>}}

----------------------------------------------------------------------------
(* The walk order of _learn_all_commands *)

NoConfig == [operation_modes |-> <<>>, fan_modes |-> <<>>, swing_modes |-> <<>>]

NumTriples(cfg) ==
    Len(cfg.operation_modes) * Len(cfg.fan_modes) * Len(cfg.swing_modes)

\* The t-th triple (t from 0) of the three nested for loops
Triple(cfg, t) ==
    LET nf == Len(cfg.fan_modes)
        ns == Len(cfg.swing_modes)
    IN  [operation_mode |-> cfg.operation_modes[(t \div (nf * ns)) + 1],
         fan_mode       |-> cfg.fan_modes[((t \div ns) % nf) + 1],
         swing_mode     |-> cfg.swing_modes[(t % ns) + 1]]

\* The key path of fan_entry and of target_container in _learn_for_mode
FanEntryPath(triple) == <<triple.operation_mode>>

TargetPath(triple, skip) ==
    IF skip \/ triple.swing_mode = None
    THEN FanEntryPath(triple)
    ELSE Append(FanEntryPath(triple), triple.swing_mode)

\* self.commands after the setdefault calls of _learn_for_mode
ResolveTarget(c, triple, skip) ==
    LET withFan == SetDefault(c, FanEntryPath(triple))
    IN  IF skip \/ triple.swing_mode = None
        THEN withFan
        ELSE SetDefault(withFan, TargetPath(triple, skip))

----------------------------------------------------------------------------
(* The process *)

\* main up to session.run(): json.load and ACLearningSession.__init__
Load(doc) ==
    /\ data = doc
    /\ auto_resume = FALSE
    /\ skip_swing_learning = (doc.swingModes = <<>>)
    /\ precision = DecimalOfNumber(doc.precision)
    /\ min_default = DecimalOfNumber(doc.minTemperature)
    /\ max_default = DecimalOfNumber(doc.maxTemperature)
    /\ config = NoConfig
    /\ minimum = <<>>
    /\ temperatures = <<>>
    /\ k = 0
    /\ target = <<>>
    /\ response = None
    /\ iT = 0
    /\ exit = "none"
    /\ saves = 0
    /\ entered = 0
    /\ elapsed = 0
    /\ polls = 0
    /\ result = <<>>
    /\ pc = "run"

\* The number of processes the model follows
MaxRuns == 2

Init ==
    /\ file \in InitialDocuments
    /\ Load(file)
    /\ runs = 1
    /\ walked = <<>>
    /\ ended_at = <<>>

\* main without its finally block
SaveNothing(doc) == UNCHANGED <<file, saves>>

\* The finally block of main: json.dump(data, config_file)
Save(doc) ==
    /\ file' = doc
    /\ saves' = saves + 1

\* session.run() ends (returning, or raising SystemExit or an error) with
\* the document doc in memory, and main's finally block runs.
Finish(kind, doc) ==
    /\ data' = doc
    /\ Save(doc)
    /\ exit' = kind
    /\ pc' = "exited"

session_fields == <<auto_resume, skip_swing_learning, precision, min_default,
                    max_default>>
walk_locals == <<k, target, response, iT, entered>>

\* _learn_for_mode returns to the loop of _learn_all_commands, which
\* reverses the working list and goes on to the next triple, or returns to
\* run, which calls _learn_off_command.
EndTriple(c) ==
    /\ data' = [data EXCEPT !.commands = c]
    /\ temperatures' = Reverse(temperatures)
    /\ k' = k + 1
    /\ target' = <<>>
    /\ response' = None
    /\ iT' = 0
    /\ pc' = IF k + 1 < NumTriples(config) THEN "triple" ELSE "learn_off"
    /\ entered' = IF k + 1 < NumTriples(config) THEN 0 ELSE 1
    /\ UNCHANGED <<file, session_fields, config, minimum, exit, saves>>

\* run: _prompt_for_auto_resume up to its prompt, or, with no stored
\* command, on to the first prompt of _build_learning_config
Run ==
    /\ pc = "run"
    /\ pc' = IF Truthy(data.commands, <<>>) THEN "ask_resume" ELSE "ask_ops"
    /\ UNCHANGED <<file, data, session_fields, config, minimum, temperatures,
                   walk_locals, exit, saves>>

\* The answer to "Do you want to resume where you left?"; the resume path
\* of _build_learning_config
AnswerResume(resp) ==
    /\ pc = "ask_resume"
    /\ LET r == prompt_yes_no(resp, FALSE) IN
        IF r = "again" THEN UNCHANGED vars
        ELSE
          /\ auto_resume' = (r = "True")
          /\ IF r = "True"
             THEN /\ config' =
                        [operation_modes |-> data.operationModes,
                         fan_modes       |-> data.fanModes,
                         swing_modes     |-> IF skip_swing_learning
                                             THEN <<None>>
                                             ELSE data.swingModes]
                  /\ pc' = "ask_min"
             ELSE /\ config' = config
                  /\ pc' = "ask_ops"
          /\ UNCHANGED <<file, data, skip_swing_learning, precision,
                         min_default, max_default, minimum, temperatures,
                         walk_locals, exit, saves>>

\* prompt_list("operation modes", ...) with its result written to the
\* document
AnswerOperationModesStores(raw) ==
    /\ pc = "ask_ops"
    /\ config' = [config EXCEPT
                    !.operation_modes = prompt_list(raw, data.operationModes)]
    /\ data' = [data EXCEPT
                  !.operationModes = prompt_list(raw, data.operationModes)]
    /\ pc' = "ask_fans"
    /\ UNCHANGED <<file, session_fields, minimum, temperatures,
                   walk_locals, exit, saves>>

\* prompt_list("operation modes", ...) in _build_learning_config
AnswerOperationModes(raw) ==
    /\ pc = "ask_ops"
    /\ config' = [config EXCEPT
                    !.operation_modes = prompt_list(raw, data.operationModes)]
    /\ pc' = "ask_fans"
    /\ UNCHANGED <<file, data, session_fields, minimum, temperatures,
                   walk_locals, exit, saves>>

\* prompt_list("fan modes", ...), then _resolve_swing_modes up to its
\* yes/no prompt
AnswerFanModes(raw) ==
    /\ pc = "ask_fans"
    /\ config' = [config EXCEPT
                    !.fan_modes = prompt_list(raw, data.fanModes)]
    /\ pc' = "ask_swing_skip"
    /\ UNCHANGED <<file, data, session_fields, minimum, temperatures,
                   walk_locals, exit, saves>>

\* _clear_swing_modes without its first line
ClearSwingModesKeepsFlag ==
    /\ UNCHANGED skip_swing_learning
    /\ data' = [data EXCEPT !.swingModes = <<>>]
    /\ config' = [config EXCEPT !.swing_modes = <<None>>]

\* _clear_swing_modes without its second line
ClearSwingModesKeepsList ==
    /\ skip_swing_learning' = TRUE
    /\ config' = [config EXCEPT !.swing_modes = <<None>>]
    /\ UNCHANGED data

\* _clear_swing_modes, and the [None] its callers return
ClearSwingModes ==
    /\ skip_swing_learning' = TRUE
    /\ data' = [data EXCEPT !.swingModes = <<>>]
    /\ config' = [config EXCEPT !.swing_modes = <<None>>]

\* _resolve_swing_modes: the answer to its skip question (default yes
\* with no stored swing mode, no otherwise)
AnswerSwingSkip(resp) ==
    /\ pc = "ask_swing_skip"
    /\ LET existing_modes == data.swingModes
           r == prompt_yes_no(resp, existing_modes = <<>>)
       IN  IF r = "again" THEN UNCHANGED vars
           ELSE
             /\ IF r = "True"
                THEN /\ ClearSwingModes
                     /\ pc' = "ask_min"
                ELSE /\ skip_swing_learning' = FALSE
                     /\ pc' = "ask_swing_list"
                     /\ UNCHANGED <<data, config>>
             /\ UNCHANGED <<file, auto_resume, precision, min_default,
                            max_default, minimum, temperatures, walk_locals,
                            exit, saves>>

\* _resolve_swing_modes: prompt_list("swing modes", existing_modes)
AnswerSwingList(raw) ==
    /\ pc = "ask_swing_list"
    /\ LET swing_modes == prompt_list(raw, data.swingModes) IN
        IF swing_modes # <<>>
        THEN /\ data' = [data EXCEPT !.swingModes = swing_modes]
             /\ config' = [config EXCEPT !.swing_modes = swing_modes]
             /\ UNCHANGED skip_swing_learning
        ELSE ClearSwingModes
    /\ pc' = "ask_min"
    /\ UNCHANGED <<file, auto_resume, precision, min_default, max_default,
                   minimum, temperatures, walk_locals, exit, saves>>

\* _prepare_temperature_range: prompt_temperature("minimum", ...)
AnswerMinimum(resp) ==
    /\ pc = "ask_min"
    /\ LET r == prompt_temperature(resp, min_default, precision, <<>>) IN
        CASE r.kind = "again" -> UNCHANGED vars
          [] r.kind = "raise" ->
                /\ Finish("InvalidOperation", data)
                /\ UNCHANGED <<session_fields, config, minimum, temperatures,
                               walk_locals>>
          [] r.kind = "return" ->
                /\ minimum' = <<r.v>>
                /\ pc' = "ask_max"
                /\ UNCHANGED <<file, data, session_fields, config,
                               temperatures, walk_locals, exit, saves>>

\* _prepare_temperature_range: prompt_temperature("maximum", ...), the two
\* writes to the document and build_temperature_range; then the first
\* lines of _learn_all_commands
AnswerMaximum(resp) ==
    /\ pc = "ask_max"
    /\ LET r == prompt_temperature(resp, max_default, precision, minimum) IN
        CASE r.kind = "again" -> UNCHANGED vars
          [] r.kind = "raise" ->
                /\ Finish("InvalidOperation", data)
                /\ UNCHANGED <<session_fields, config, minimum, temperatures,
                               walk_locals>>
          [] r.kind = "return" ->
                /\ data' = [data EXCEPT
                              !.minTemperature = decimal_to_number(minimum[1]),
                              !.maxTemperature = decimal_to_number(r.v)]
                /\ temperatures' =
                       build_temperature_range(minimum[1], r.v, precision)
                /\ pc' = IF NumTriples(config) > 0 THEN "triple"
                         ELSE "learn_off"
                /\ entered' = IF NumTriples(config) > 0 THEN 0 ELSE 1
                /\ UNCHANGED <<file, session_fields, config, minimum, k,
                               target, response, iT, exit, saves>>

\* _learn_for_mode for the next triple, up to the skip question, the
\* prepare prompt of _capture_commands, or its return in auto-resume mode
LearnForMode ==
    /\ pc = "triple"
    /\ LET triple == Triple(config, k)
           c  == ResolveTarget(data.commands, triple, skip_swing_learning)
           target_container == TargetPath(triple, skip_swing_learning)
       IN  IF Truthy(c, target_container)
           THEN IF auto_resume
                THEN EndTriple(c)
                ELSE /\ data' = [data EXCEPT !.commands = c]
                     /\ target' = target_container
                     /\ pc' = "ask_skip"
                     /\ UNCHANGED <<file, session_fields, config, minimum,
                                    temperatures, k, response, iT, entered,
                                    exit, saves>>
           ELSE /\ data' = [data EXCEPT !.commands = c]
                /\ target' = target_container
                /\ pc' = "ask_prepare"
                /\ UNCHANGED <<file, session_fields, config, minimum,
                               temperatures, k, response, iT, entered, exit,
                               saves>>

\* _should_skip_existing_entry: the answer to its question
AnswerSkip(resp) ==
    /\ pc = "ask_skip"
    /\ LET r == prompt_yes_no(resp, FALSE) IN
        CASE r = "again" -> UNCHANGED vars
          [] r = "True"  -> EndTriple(data.commands)
          [] r = "False" ->
                /\ pc' = "ask_prepare"
                /\ UNCHANGED <<file, data, session_fields, config, minimum,
                               temperatures, walk_locals, exit, saves>>

\* _capture_commands with target_container.clear() before the prompt
AnswerPrepareClearsFirst(resp) ==
    /\ pc = "ask_prepare"
    /\ IF resp = "n"
       THEN /\ Finish("SystemExit",
                      [data EXCEPT !.commands = Clear(data.commands, target)])
            /\ UNCHANGED <<session_fields, config, minimum, temperatures,
                           walk_locals>>
       ELSE /\ data' = [data EXCEPT !.commands = Clear(data.commands, target)]
            /\ response' = resp
            /\ iT' = 1
            /\ entered' = 1
            /\ pc' = "learn"
            /\ UNCHANGED <<file, session_fields, config, minimum,
                           temperatures, k, target, exit, saves>>

\* _capture_commands: the answer to the prepare prompt; sys.exit(0) on
\* "n", else target_container.clear()
AnswerPrepare(resp) ==
    /\ pc = "ask_prepare"
    /\ IF resp = "n"
       THEN /\ Finish("SystemExit", data)
            /\ UNCHANGED <<session_fields, config, minimum, temperatures,
                           walk_locals>>
       ELSE /\ data' = [data EXCEPT !.commands = Clear(data.commands, target)]
            /\ response' = resp
            /\ iT' = 1
            /\ entered' = 1
            /\ pc' = "learn"
            /\ UNCHANGED <<file, session_fields, config, minimum,
                           temperatures, k, target, exit, saves>>

\* The loop of the "s" branch storing nothing
StoreNone(c, container, values, command) == c

\* The loop of the "s" branch stopping after its first label
StoreFirst(c, container, values, command) ==
    IF values = <<>> THEN c
    ELSE SetItem(c, Append(container, temperature_to_string(Head(values))),
                 command)

RECURSIVE StoreAll(_, _, _, _)
\* for temperature in temperature_values: target_container[label] = command
StoreAll(c, container, values, command) ==
    IF values = <<>> THEN c
    ELSE StoreAll(SetItem(c, Append(container,
                                    temperature_to_string(Head(values))),
                          command),
                  container, Tail(values), command)

\* _capture_commands with a _learn_command that raises at its deadline
\* instead of returning ""
LearnCommandTimeoutRaises(command) ==
    /\ pc = "learn"
    /\ IF command = ""
       THEN /\ Finish("TimeoutError", data)
            /\ UNCHANGED <<session_fields, config, minimum, temperatures,
                           walk_locals>>
       ELSE IF response = "s"
       THEN EndTriple(StoreAll(data.commands, target, temperatures, command))
       ELSE LET c == SetItem(data.commands,
                             Append(target,
                                    temperature_to_string(temperatures[iT])),
                             command)
            IN  IF iT = Len(temperatures)
                THEN EndTriple(c)
                ELSE /\ data' = [data EXCEPT !.commands = c]
                     /\ iT' = iT + 1
                     /\ entered' = entered + 1
                     /\ UNCHANGED <<file, pc, session_fields, config, minimum,
                                    temperatures, k, target, response, exit,
                                    saves>>

\* _capture_commands: one _learn_command call has returned command
LearnCommand(command) ==
    /\ pc = "learn"
    /\ IF response = "s"
       THEN EndTriple(StoreAll(data.commands, target, temperatures, command))
       ELSE LET c == SetItem(data.commands,
                             Append(target,
                                    temperature_to_string(temperatures[iT])),
                             command)
            IN  IF iT = Len(temperatures)
                THEN EndTriple(c)
                ELSE /\ data' = [data EXCEPT !.commands = c]
                     /\ iT' = iT + 1
                     /\ entered' = entered + 1
                     /\ UNCHANGED <<file, pc, session_fields, config, minimum,
                                    temperatures, k, target, response, exit,
                                    saves>>

\* _learn_off_command with an existing-entry check: a stored off command
\* is kept
LearnOffCommandKeepsExisting(command) ==
    /\ pc = "learn_off"
    /\ IF <<"off">> \in DOMAIN data.commands /\ Truthy(data.commands, <<"off">>)
       THEN Finish("normal", data)
       ELSE Finish("normal", [data EXCEPT
                                !.commands = SetItem(data.commands, <<"off">>,
                                                     command)])
    /\ UNCHANGED <<session_fields, config, minimum, temperatures, walk_locals>>

\* _learn_off_command: its _learn_command call has returned command; run
\* returns
LearnOffCommand(command) ==
    /\ pc = "learn_off"
    /\ Finish("normal", [data EXCEPT
                           !.commands = SetItem(data.commands, <<"off">>,
                                                command)])
    /\ UNCHANGED <<session_fields, config, minimum, temperatures, walk_locals>>

\* device.enter_learning() or device.check_data() raises an error other
\* than ReadError and StorageError
LearnCommandRaises ==
    /\ pc \in {"learn", "learn_off"}
    /\ Finish("DeviceError", data)
    /\ UNCHANGED <<session_fields, config, minimum, temperatures, walk_locals>>

AskPoints == {"ask_resume", "ask_ops", "ask_fans", "ask_swing_skip",
              "ask_swing_list", "ask_min", "ask_max", "ask_skip",
              "ask_prepare"}

\* input() raises EOFError or KeyboardInterrupt
InputRaises ==
    /\ pc \in AskPoints
    /\ Finish("EOFError", data)
    /\ UNCHANGED <<session_fields, config, minimum, temperatures, walk_locals>>

\* The script is started again on the file the last process left
Restart ==
    /\ pc = "exited"
    /\ runs < MaxRuns
    /\ runs' = runs + 1
    /\ walked' = IF temperatures # <<>> /\ k = NumTriples(config)
                 THEN <<[config         |-> config,
                         minTemperature |-> data.minTemperature,
                         maxTemperature |-> data.maxTemperature]>>
                 ELSE <<>>
    /\ data' = file
    /\ auto_resume' = FALSE
    /\ skip_swing_learning' = (file.swingModes = <<>>)
    /\ precision' = DecimalOfNumber(file.precision)
    /\ min_default' = DecimalOfNumber(file.minTemperature)
    /\ max_default' = DecimalOfNumber(file.maxTemperature)
    /\ config' = NoConfig
    /\ minimum' = <<>>
    /\ temperatures' = <<>>
    /\ k' = 0
    /\ target' = <<>>
    /\ response' = None
    /\ iT' = 0
    /\ exit' = "none"
    /\ saves' = 0
    /\ entered' = 0
    /\ ended_at' = <<>>
    /\ pc' = "run"
    /\ UNCHANGED <<file, elapsed, polls, result>>

WalkPoints == {"triple", "ask_skip", "ask_prepare", "learn", "learn_off"}

\* Whether the process, in the state it moves to, still repeats the walk w:
\* the same lists as far as they are chosen, the same range once it is
\* chosen, and skip chosen at every existing-entry prompt.
Repeats(w) ==
    /\ ~(pc = "ask_skip" /\ pc' = "ask_prepare")
    /\ pc' \in {"ask_fans", "ask_swing_skip", "ask_swing_list"}
          => config'.operation_modes = w.config.operation_modes
    /\ pc' \in {"ask_swing_skip", "ask_swing_list"}
          => config'.fan_modes = w.config.fan_modes
    /\ pc' \in {"ask_min", "ask_max"} \cup WalkPoints => config' = w.config
    /\ pc' \in WalkPoints
          => /\ data'.minTemperature = w.minTemperature
             /\ data'.maxTemperature = w.maxTemperature

\* What a step of the running process leaves of the history variables
Track ==
    /\ runs' = runs
    /\ walked' = IF walked # <<>> /\ Repeats(walked[1]) THEN walked ELSE <<>>
    /\ ended_at' = IF pc = "learn" /\ k' = k + 1
                   THEN IF response = "s" THEN <<>>
                        ELSE <<Last(temperatures)>>
                   ELSE ended_at
    /\ UNCHANGED <<elapsed, polls, result>>

Next ==
    \/ Run /\ Track
    \/ \E resp \in YesNoInputs : AnswerResume(resp) /\ Track
    \/ \E raw \in OperationInputs : AnswerOperationModes(raw) /\ Track
    \/ \E raw \in FanInputs : AnswerFanModes(raw) /\ Track
    \/ \E resp \in YesNoInputs : AnswerSwingSkip(resp) /\ Track
    \/ \E raw \in SwingInputs : AnswerSwingList(raw) /\ Track
    \/ \E resp \in TemperatureInputs : AnswerMinimum(resp) /\ Track
    \/ \E resp \in TemperatureInputs : AnswerMaximum(resp) /\ Track
    \/ LearnForMode /\ Track
    \/ \E resp \in YesNoInputs : AnswerSkip(resp) /\ Track
    \/ \E resp \in PrepareInputs : AnswerPrepare(resp) /\ Track
    \/ \E command \in LearnResults : LearnCommand(command) /\ Track
    \/ \E command \in LearnResults : LearnOffCommand(command) /\ Track
    \/ LearnCommandRaises /\ Track
    \/ InputRaises /\ Track
    \/ Restart

Spec == Init /\ [][Next]_vars

----------------------------------------------------------------------------
(* build_temperature_range on its own, over a grid of arguments *)

\* The largest temperature and the largest precision tried, in tenths
MaxTemperature == 8
MaxPrecision == 3

\* The arguments are held in minimum, max_default and precision; nothing
\* else of the session is used.
RangeInit ==
    /\ file \in {doc \in InitialDocuments : doc.swingModes = <<>>}
    /\ data = file
    /\ auto_resume = FALSE
    /\ skip_swing_learning = TRUE
    /\ precision \in 1..MaxPrecision
    /\ min_default = 0
    /\ max_default \in (0 - MaxTemperature)..MaxTemperature
    /\ config = NoConfig
    /\ minimum \in {<<m>> : m \in (0 - MaxTemperature)..MaxTemperature}
    /\ temperatures = <<>>
    /\ k = 0
    /\ target = <<>>
    /\ response = None
    /\ iT = 0
    /\ exit = "none"
    /\ saves = 0
    /\ entered = 0
    /\ elapsed = 0
    /\ polls = 0
    /\ result = <<>>
    /\ runs = 1
    /\ walked = <<>>
    /\ ended_at = <<>>
    /\ pc = "range"

\* The call build_temperature_range(minimum, maximum, precision)
BuildRange ==
    /\ pc = "range"
    /\ temperatures' =
           build_temperature_range(minimum[1], max_default, precision)
    /\ pc' = "built"
    /\ UNCHANGED <<file, data, session_fields, config, minimum, walk_locals,
                   exit, saves, elapsed, polls, result, runs, walked,
                   ended_at>>

RangeNext == BuildRange

SpecRange == RangeInit /\ [][RangeNext]_vars

----------------------------------------------------------------------------
(* _learn_command on its own: the polling loop against the clock *)

TIMEOUT_SECONDS == 30

\* time.sleep(0.5): the clock is counted in poll intervals of half a second
IntervalsPerSecond == 2

\* The longest one pass of the loop takes (the sleep and the check_data
\* call), in poll intervals
MaxDelay == 2

\* A loop condition that never sees the deadline
NeverExpires(e) == TRUE

\* time.time() - start < TIMEOUT_SECONDS
BeforeDeadline(e) == e < TIMEOUT_SECONDS * IntervalsPerSecond

\* A call of _learn_command is about to start; nothing else of the session
\* is used.
LearnInit ==
    /\ file \in InitialDocuments
    /\ data = file
    /\ auto_resume = FALSE
    /\ skip_swing_learning = (file.swingModes = <<>>)
    /\ precision = DecimalOfNumber(file.precision)
    /\ min_default = DecimalOfNumber(file.minTemperature)
    /\ max_default = DecimalOfNumber(file.maxTemperature)
    /\ config = NoConfig
    /\ minimum = <<>>
    /\ temperatures = <<>>
    /\ k = 0
    /\ target = <<>>
    /\ response = None
    /\ iT = 0
    /\ exit = "none"
    /\ saves = 0
    /\ entered = 0
    /\ elapsed = 0
    /\ polls = 0
    /\ result = <<>>
    /\ runs = 1
    /\ walked = <<>>
    /\ ended_at = <<>>
    /\ pc = "call"

learn_frame == <<file, data, session_fields, config, minimum, temperatures,
                 k, target, response, iT, exit, saves, runs, walked, ended_at>>

\* self.device.enter_learning(); start = time.time()
EnterLearning ==
    /\ pc = "call"
    /\ entered' = entered + 1
    /\ elapsed' = 0
    /\ pc' = "loop"
    /\ UNCHANGED <<polls, result, learn_frame>>

\* self.device.enter_learning() raises
EnterLearningRaises ==
    /\ pc = "call"
    /\ entered' = entered + 1
    /\ pc' = "raised"
    /\ UNCHANGED <<elapsed, polls, result, learn_frame>>

\* One pass of the loop in which check_data() returns payload: the call
\* returns the encoded payload.
PollData(delay, payload) ==
    /\ pc = "loop"
    /\ BeforeDeadline(elapsed)
    /\ elapsed' = elapsed + delay
    /\ polls' = polls + 1
    /\ result' = <<b64encode(payload)>>
    /\ pc' = "returned"
    /\ UNCHANGED <<entered, learn_frame>>

\* One pass of the loop in which check_data() raises ReadError or
\* StorageError: continue
PollTransient(delay) ==
    /\ pc = "loop"
    /\ BeforeDeadline(elapsed)
    /\ elapsed' = elapsed + delay
    /\ polls' = polls + 1
    /\ UNCHANGED <<pc, entered, result, learn_frame>>

\* One pass of the loop in which check_data() raises any other error
PollRaises(delay) ==
    /\ pc = "loop"
    /\ BeforeDeadline(elapsed)
    /\ elapsed' = elapsed + delay
    /\ polls' = polls + 1
    /\ pc' = "raised"
    /\ UNCHANGED <<entered, result, learn_frame>>

\* The loop condition fails: print("No data received..."); return ""
DeadlinePassed ==
    /\ pc = "loop"
    /\ ~BeforeDeadline(elapsed)
    /\ result' = <<"">>
    /\ pc' = "returned"
    /\ UNCHANGED <<entered, elapsed, polls, learn_frame>>

LearnNext ==
    \/ EnterLearning
    \/ EnterLearningRaises
    \/ \E delay \in 1..MaxDelay, payload \in Payloads : PollData(delay, payload)
    \/ \E delay \in 1..MaxDelay : PollTransient(delay)
    \/ \E delay \in 1..MaxDelay : PollRaises(delay)
    \/ DeadlinePassed

\* The process is not suspended for ever: a step that can be taken is taken.
SpecLearn == LearnInit /\ [][LearnNext]_vars /\ WF_vars(LearnNext)

----------------------------------------------------------------------------
(* Shapes of the commands tree *)

\* The dicts _learn_for_mode uses as fan_entry: those under a key of commands
FanEntries(c) == {p \in DOMAIN c : Len(p) = 1 /\ c[p] = Dict}

\* Every key of the container holds a command (temperature keys)
Flat(c, p) == \A q \in Children(c, p) : c[q] # Dict

\* Every key of the container holds a dict (swing keys)
SwingKeyed(c, p) == \A q \in Children(c, p) : c[q] = Dict

UniformShape(c) ==
    \/ \A p \in FanEntries(c) : Flat(c, p)
    \/ \A p \in FanEntries(c) : SwingKeyed(c, p)

Labels(values) == {temperature_to_string(values[j]) : j \in 1..Len(values)}

ConfigBuilt == config.swing_modes # <<>>

----------------------------------------------------------------------------
(* The claims *)

\* C1: however session.run() ends once the document is loaded (return,
\* SystemExit at a prepare prompt, or an uncaught error), the document is
\* written exactly once, not before the end, and the file then holds the
\* document as it is in memory.
PersistOnEveryExit ==
    /\ saves = (IF pc = "exited" THEN 1 ELSE 0)
    /\ pc = "exited" => /\ exit # "none"
                        /\ file = data

\* An abort at a prepare prompt, after a command was captured for "cool",
\* has been written to the file.
PersistWitness ==
    /\ pc = "exited"
    /\ exit = "SystemExit"
    /\ runs = 1
    /\ Descendants(file.commands, <<"cool">>) # {}

\* C2: the commands of a triple are stored under
\* commands[operationMode][fanMode] when swing is skipped and under
\* commands[operationMode][fanMode][swingMode] when it is active, so that
\* triples differing only in their fan mode have different containers.
StoredUnderFanMode ==
    pc \in {"ask_skip", "ask_prepare", "learn"} =>
        LET triple == Triple(config, k) IN
            target = IF skip_swing_learning
                     THEN <<triple.operation_mode, triple.fan_mode>>
                     ELSE <<triple.operation_mode, triple.fan_mode,
                            triple.swing_mode>>

\* C3: a session that starts from a document whose fan-level containers
\* all have one shape leaves, wherever it ends, a document whose fan-level
\* containers all have one shape (all flat or all swing-keyed, none mixed).
ShapeStaysUniform ==
    UniformShape(file.commands) => UniformShape(data.commands)

\* C4: the response "no" at a prepare prompt aborts the session: no
\* capture is started after it.
NoAborts == ~(response = "no" /\ pc = "learn")

\* C5: a triple whose target container is non-empty is skipped without a
\* question in auto-resume mode and gets the skip question otherwise (the
\* empty answer meaning no skip); an empty target gets no skip question;
\* a skipped triple starts no capture and leaves commands as it was.
ExistingEntryPolicy ==
    [][ /\ pc = "triple" =>
            LET triple == Triple(config, k)
                container == IF skip_swing_learning
                             THEN <<triple.operation_mode>>
                             ELSE <<triple.operation_mode, triple.swing_mode>>
                nonempty == Children(data.commands, container) # {}
            IN  /\ nonempty /\ auto_resume =>
                       /\ k' = k + 1
                       /\ pc' \in {"triple", "learn_off"}
                       /\ data' = data
                /\ nonempty /\ ~auto_resume =>
                       /\ pc' = "ask_skip"
                       /\ data' = data
                /\ ~nonempty => pc' = "ask_prepare"
        /\ pc = "ask_skip" /\ k' = k + 1 =>
                /\ pc' \in {"triple", "learn_off"}
                /\ data' = data
        /\ AnswerSkip("") => pc' = "ask_prepare"
      ]_vars

\* An auto-resume walk over at least two triples that skipped them all
ExistingEntryWitness ==
    /\ auto_resume
    /\ pc = "learn_off"
    /\ NumTriples(config) >= 2
    /\ data.commands = file.commands

\* C6: a second walk over the configuration and range of a complete first
\* walk, with skip chosen at every existing-entry prompt, starts no capture
\* and leaves commands as it is.
SecondWalkChangesNothing ==
    [][ walked # <<>> /\ walked' # <<>> /\ pc \notin {"learn_off", "exited"}
           => /\ data'.commands = data.commands
              /\ pc' \notin {"ask_prepare", "learn"}
      ]_vars

\* The second walk has gone over four triples, skip chosen at each prompt
SecondWalkWitness ==
    /\ walked # <<>>
    /\ ~auto_resume
    /\ pc = "learn_off"
    /\ NumTriples(config) = 4

\* C7: the k-th triple (k from 0) takes the range in ascending order when
\* k is even and in descending order when k is odd, stores its commands in
\* that order, and ends with exactly the labels of the range as its keys;
\* the walk leaves minTemperature and maxTemperature of the document alone.
ReversalAlternation ==
    /\ [](pc \in {"triple", "ask_skip", "ask_prepare", "learn"} =>
            LET n == Len(temperatures)
                lo == DecimalOfNumber(data.minTemperature)
                hi == DecimalOfNumber(data.maxTemperature)
            IN  /\ n >= 1
                /\ temperatures[1] = IF k % 2 = 0 THEN lo ELSE hi
                /\ temperatures[n] = IF k % 2 = 0 THEN hi ELSE lo
                /\ \A j \in 1..(n - 1) :
                       temperatures[j + 1] =
                           IF k % 2 = 0 THEN temperatures[j] + precision
                           ELSE temperatures[j] - precision
                /\ pc = "learn" /\ response # "s" =>
                       Keys(data.commands, target) =
                           Labels(SubSeq(temperatures, 1, iT - 1)))
    /\ [][ /\ pc = "learn" /\ k' = k + 1 =>
                 Keys(data'.commands, target) = Labels(temperatures)
           /\ pc \in WalkPoints /\ pc' \in WalkPoints =>
                 /\ data'.minTemperature = data.minTemperature
                 /\ data'.maxTemperature = data.maxTemperature
         ]_vars

\* The second triple of a first walk is at its second label, having taken
\* the higher temperature first.
ReversalWitness ==
    /\ runs = 1
    /\ pc = "learn"
    /\ response # "s"
    /\ k = 1
    /\ iT = 2
    /\ temperatures[1] > temperatures[2]

\* C8: with precision > 0, maximum >= minimum and the difference a
\* multiple of precision, build_temperature_range returns a non-empty
\* list from minimum to maximum in steps of precision, of length
\* (maximum - minimum) / precision + 1.
RangeIsExact ==
    pc = "built" /\ max_default >= minimum[1]
                 /\ (max_default - minimum[1]) % precision = 0
    => /\ Len(temperatures) = ((max_default - minimum[1]) \div precision) + 1
       /\ temperatures[1] = minimum[1]
       /\ temperatures[Len(temperatures)] = max_default
       /\ \A j \in 1..(Len(temperatures) - 1) :
              /\ temperatures[j + 1] = temperatures[j] + precision
              /\ temperatures[j + 1] > temperatures[j]

\* A range of several steps from a minimum that is no multiple of the
\* precision
RangeWitness ==
    /\ pc = "built"
    /\ precision = 2
    /\ minimum[1] % precision # 0
    /\ (max_default - minimum[1]) % precision = 0
    /\ Len(temperatures) >= 4

\* C9: every response to a temperature prompt that is not acceptable is
\* rejected with a new prompt: none ends the session.
RejectedWithReprompt == exit # "InvalidOperation"

\* C10: once the learning configuration is built, skip_swing_learning is
\* true exactly when the swing modes are [None], to the end of the walk.
SkipSwingIffNone ==
    ConfigBuilt => (skip_swing_learning <=> config.swing_modes = <<None>>)

\* A walk with a swing mode typed into a document that had none
SkipSwingWitness ==
    /\ file.swingModes = <<>>
    /\ config.swing_modes = <<"up">>
    /\ ~skip_swing_learning
    /\ pc = "learn"

\* C11: when the prepare prompt is answered "s", the triple makes exactly
\* one capture (one call of enter_learning), and when it ends its target
\* container has the labels of the range, and no other key, all mapped to
\* the one command that capture returned.
SingleCaptureFillsRange ==
    /\ [](pc = "learn" /\ response = "s" => entered = 1 /\ iT = 1)
    /\ [][ pc = "learn" /\ response = "s" /\ exit' = "none" =>
             /\ k' = k + 1
             /\ pc' \in {"triple", "learn_off"}
             /\ Keys(data'.commands, target) = Labels(temperatures)
             /\ Descendants(data'.commands, target) =
                    Children(data'.commands, target)
             /\ \E command \in LearnResults :
                    \A label \in Labels(temperatures) :
                        data'.commands[Append(target, label)] = command
         ]_vars

\* The first triple of a first walk, over a range of two labels, has ended
\* without a capture per temperature, and its container holds both labels.
SingleCaptureWitness ==
    /\ runs = 1
    /\ k = 1
    /\ pc = "triple"
    /\ ended_at = <<>>
    /\ Len(temperatures) = 2
    /\ Keys(data.commands, <<config.operation_modes[1]>>) = Labels(temperatures)
    /\ \A label \in Labels(temperatures) :
           data.commands[<<config.operation_modes[1], label>>] = b64encode(<<66>>)

\* C12: a capture that times out (returns "") raises nothing: the cell of
\* its label holds "", and the walk goes on to the next label, the next
\* triple or the off command as it does after any capture that returned,
\* and the off command itself stores "" and run returns normally.
TimeoutContinuesWalk ==
    [][ /\ \A command \in LearnResults : LearnCommand(command) =>
             /\ exit' = "none"
             /\ response # "s" =>
                    data'.commands[Append(target,
                        temperature_to_string(temperatures[iT]))] = command
             /\ pc' = IF response # "s" /\ iT < Len(temperatures) THEN "learn"
                      ELSE IF k + 1 < NumTriples(config) THEN "triple"
                      ELSE "learn_off"
             /\ iT' = IF response # "s" /\ iT < Len(temperatures) THEN iT + 1
                      ELSE 0
             /\ k' = IF response # "s" /\ iT < Len(temperatures) THEN k
                     ELSE k + 1
        /\ \A command \in LearnResults : LearnOffCommand(command) =>
             /\ exit' = "normal"
             /\ data'.commands[<<"off">>] = command
      ]_vars

\* A session ended normally with a timed-out cell in the first container
\* and a captured off command after it.
TimeoutWitness ==
    /\ runs = 1
    /\ exit = "normal"
    /\ NumTriples(config) > 0
    /\ Len(temperatures) = 2
    /\ \E label \in Labels(temperatures) :
           /\ <<config.operation_modes[1], label>> \in DOMAIN file.commands
           /\ file.commands[<<config.operation_modes[1], label>>] = ""
    /\ file.commands[<<"off">>] # ""

\* C13: when the last triple of the walk ends (or there is none), the off
\* capture starts at once, with no prompt and whatever commands["off"]
\* holds, auto-resume or not; it is one capture, its result is stored
\* under commands["off"] with every other entry left alone, and run
\* returns after it.
OffCapturedUnconditionally ==
    /\ [](pc = "learn_off" => k = NumTriples(config) /\ entered = 1)
    /\ [](exit = "normal" => /\ k = NumTriples(config)
                             /\ entered = 1
                             /\ <<"off">> \in DOMAIN file.commands)
    /\ [][ /\ pc \in {"triple", "ask_skip", "learn"} /\ k' = k + 1
                 /\ k' = NumTriples(config) => pc' = "learn_off"
           /\ pc = "ask_max" /\ pc' # pc /\ exit' = "none"
                 /\ NumTriples(config) = 0 => pc' = "learn_off"
           /\ \A command \in LearnResults : LearnOffCommand(command) =>
                 /\ pc' = "exited"
                 /\ exit' = "normal"
                 /\ data'.commands[<<"off">>] = command
                 /\ \A p \in DOMAIN data.commands \ {<<"off">>} :
                        /\ p \in DOMAIN data'.commands
                        /\ data'.commands[p] = data.commands[p]
         ]_vars

\* An auto-resume session whose document already holds an off command has
\* skipped its triples and is in the off capture.
OffWitness ==
    /\ auto_resume
    /\ pc = "learn_off"
    /\ entered = 1
    /\ NumTriples(config) >= 2
    /\ <<"off">> \in DOMAIN data.commands
    /\ data.commands[<<"off">>] # ""

\* C14: a call of _learn_command enters learning mode exactly once; every
\* pass of its loop that goes round again polled once and took time, so
\* there are at most TIMEOUT_SECONDS / 0.5 polls; a poll that yields data
\* ends the call with the encoded payload, which is never ""; the call
\* returns "" only as the loop condition fails, having seen no data; and
\* the call always ends.
LearnCommandTerminates ==
    /\ [](/\ entered <= 1
          /\ pc \in {"loop", "returned"} => entered = 1
          /\ polls <= TIMEOUT_SECONDS * IntervalsPerSecond
          /\ pc = "returned" => /\ Len(result) = 1
                                /\ result[1] \in LearnResults)
    /\ [][ /\ pc = "loop" /\ pc' = "loop" =>
                 /\ polls' = polls + 1
                 /\ elapsed' > elapsed
                 /\ result' = <<>>
           /\ pc = "loop" /\ pc' = "returned" /\ polls' = polls + 1 =>
                 result' \in {<<b64encode(payload)>> : payload \in Payloads}
                    \ {<<"">>}
           /\ pc = "loop" /\ pc' = "returned" /\ result' = <<"">> =>
                 /\ polls' = polls
                 /\ elapsed >= TIMEOUT_SECONDS * IntervalsPerSecond
         ]_vars
    /\ <>(pc \in {"returned", "raised"})

\* The call returned "" after TIMEOUT_SECONDS / 0.5 polls, all transient.
LearnCommandWitness ==
    /\ pc = "returned"
    /\ result = <<"">>
    /\ entered = 1
    /\ polls = TIMEOUT_SECONDS * IntervalsPerSecond

\* C15: a triple that is neither skipped nor aborted clears its target
\* container before its first capture and touches nothing outside it;
\* while it captures, the container holds the cells captured so far and
\* nothing else; when it ends, the container holds the labels of the range
\* and nothing else.
FreshStartPerTriple ==
    /\ [](pc = "learn" =>
            Descendants(data.commands, target) =
                {Append(target, label) :
                    label \in Labels(SubSeq(temperatures, 1,
                                 IF response = "s" THEN 0 ELSE iT - 1))})
    /\ [][ /\ pc = "ask_prepare" /\ pc' = "learn" =>
                 /\ Descendants(data'.commands, target) = {}
                 /\ DOMAIN data'.commands =
                        DOMAIN data.commands \ Descendants(data.commands, target)
                 /\ \A p \in DOMAIN data'.commands :
                        data'.commands[p] = data.commands[p]
           /\ pc = "learn" /\ k' = k + 1 =>
                 Descendants(data'.commands, target) =
                     {Append(target, label) : label \in Labels(temperatures)}
         ]_vars

\* The first capture of a triple is pending, and its container, which the
\* file still shows with a label outside the range of this session, is
\* empty.
FreshStartWitness ==
    /\ pc = "learn"
    /\ iT = 1
    /\ Keys(file.commands, target) \ Labels(temperatures) # {}
    /\ Children(data.commands, target) = {}

\* C16: from the start of a triple to an abort at its prepare prompt, no
\* stored entry changes or goes (only empty containers are created); the
\* abort leaves commands as it is, the target container not cleared, and
\* that is what the file gets.
AbortKeepsCommands ==
    /\ [](exit = "SystemExit" => file.commands = data.commands)
    /\ [][ /\ pc \in {"triple", "ask_skip", "ask_prepare"}
                 /\ pc' \in {"ask_skip", "ask_prepare", "exited"} =>
                 /\ \A p \in DOMAIN data.commands :
                        /\ p \in DOMAIN data'.commands
                        /\ data'.commands[p] = data.commands[p]
                 /\ \A p \in DOMAIN data'.commands \ DOMAIN data.commands :
                        data'.commands[p] = Dict
           /\ pc = "ask_prepare" /\ exit' = "SystemExit" =>
                 /\ data'.commands = data.commands
                 /\ file'.commands = data.commands
         ]_vars

\* An abort at the prepare prompt of a triple whose container held
\* commands (the skip question was declined): the file still holds them.
AbortWitness ==
    /\ exit = "SystemExit"
    /\ Children(file.commands, target) # {}

\* C17: after swing resolution on the fresh path, the document's
\* swingModes is empty exactly when swing learning is skipped, the swing
\* list then being [None] however the skip came about; when swing learning
\* is active the document's swingModes is the resolved, non-empty list.
SwingListMatchesDecision ==
    ~auto_resume /\ ConfigBuilt =>
        /\ (data.swingModes = <<>>) <=> skip_swing_learning
        /\ skip_swing_learning => config.swing_modes = <<None>>
        /\ ~skip_swing_learning => /\ data.swingModes = config.swing_modes
                                   /\ data.swingModes # <<>>

\* Swing learning was skipped on the fresh path for a document that had a
\* swing mode: the document's list is cleared.
SwingListWitness ==
    /\ ~auto_resume
    /\ pc = "ask_min"
    /\ file.swingModes # <<>>
    /\ data.swingModes = <<>>
    /\ skip_swing_learning
    /\ config.swing_modes = <<None>>

\* C19: no step writes operationModes or fanModes, in memory or on disk,
\* whatever lists the user types; a resume session walks the stored lists.
ModeListsNeverWritten ==
    /\ [](auto_resume /\ ConfigBuilt =>
              /\ config.operation_modes = file.operationModes
              /\ config.fan_modes = file.fanModes)
    /\ [][ /\ data'.operationModes = data.operationModes
           /\ data'.fanModes = data.fanModes
           /\ file'.operationModes = file.operationModes
           /\ file'.fanModes = file.fanModes
         ]_vars

\* A session that walked typed lists has ended normally, and the file has
\* the lists it had.
ModeListsWitness ==
    /\ exit = "normal"
    /\ config.operation_modes = <<"cool">>
    /\ config.fan_modes = <<"low">>
    /\ file.operationModes = <<"cool", "heat">>
    /\ file.fanModes = <<"low", "high">>
    /\ Children(file.commands, <<"cool">>) # {}

\* C18: a triple that captures per temperature, coming after another such
\* triple of the same walk with only skipped triples between them, starts
\* at the temperature at which that one ended.
CaptureStartsWhereLastEnded ==
    pc = "learn" /\ response # "s" /\ iT = 1 /\ ended_at # <<>>
        => temperatures[1] = ended_at[1]

\* C20: at every exit, a container the session captured into and that
\* holds a command holds one for every label of the session's range.
NoPartialContainer ==
    pc = "exited" /\ iT >= 1 /\ Children(file.commands, target) # {}
        => Keys(file.commands, target) = Labels(temperatures)

====
